---- MODULE Spec2Model ----
(***************************************************************************)
(* SortableTable (src/unnamed/part_000): a table controller that renders a *)
(* header and a body into a container element and re-sorts the dataset     *)
(* when a sortable header cell is clicked.                                 *)
(*                                                                         *)
(* Modelling conventions                                                   *)
(*  - a JavaScript string that is compared or parsed (a cell value) is a   *)
(*    sequence of one-character strings; CodeUnit gives each character its *)
(*    UTF-16 code unit, so that < and > on strings and Number() are         *)
(*    computed and not assumed;                                            *)
(*  - a column id is only ever compared for equality and is a TLA+ string; *)
(*  - the container's children are kept as two sequences in document       *)
(*    order, theads and tbodies: no query of the code depends on how the   *)
(*    two kinds interleave (a cell renderer's output is opaque text);      *)
(*  - the document holds nothing but the container, so getElementById      *)
(*    finds header cells only;                                             *)
(*  - a null/undefined argument is the record Absent.                      *)
(***************************************************************************)
EXTENDS Integers, Sequences, FiniteSets, TLC

VARIABLES header, columnIds, originalData, displayData, selectedColumnId,
          theads, tbodies, lastOp

vars == <<header, columnIds, originalData, displayData, selectedColumnId,
          theads, tbodies, lastOp>>

\* Bounds of the model: how many <thead> and <tbody> sections the container
\* may accumulate (setHeader and setData append one each and never replace).
MaxTheads == 2
MaxTbodies == 2

\* Bound of the sort specification: the rows of a generated dataset.
MaxRows == 3

----------------------------------------------------------------------------
(* Strings                                                                 *)

\* UTF-16 code unit of the characters the cell values are written with.
CodeUnit(ch) ==
    CASE ch = "," -> 44
      [] ch = "0" -> 48
      [] ch = "1" -> 49
      [] ch = "2" -> 50
      [] ch = "3" -> 51
      [] ch = "5" -> 53
      [] ch = "A" -> 65
      [] ch = "B" -> 66
      [] ch = "a" -> 97
      [] ch = "b" -> 98
      [] ch = "c" -> 99
      [] ch = "n" -> 110
      [] ch = "o" -> 111

IsDigit(ch) == CodeUnit(ch) >= 48 /\ CodeUnit(ch) <= 57

\* A faulty variant: the pattern without the comma, /^[0-9]+$/.
canCastToNumber_DigitsOnly(str) ==
    /\ Len(str) > 0
    /\ \A i \in 1..Len(str) : IsDigit(str[i])

\* /^[0-9,]+$/.test(str)
canCastToNumber(str) ==
    /\ Len(str) > 0
    /\ \A i \in 1..Len(str) : IsDigit(str[i]) \/ str[i] = ","

\* str.replace(/,/g, '')
removeCommas(str) == SelectSeq(str, LAMBDA ch : ch # ",")

\* Number(s) for a string of ASCII digits; Number('') is 0.  The values of
\* the model stay far below 2^53, where the conversion is exact.
RECURSIVE Number(_)
Number(s) ==
    IF s = <<>> THEN 0
    ELSE 10 * Number(SubSeq(s, 1, Len(s) - 1)) + (CodeUnit(s[Len(s)]) - 48)

\* a < b on two JavaScript strings: code unit by code unit, a proper prefix
\* being the smaller.
RECURSIVE StringLess(_, _)
StringLess(a, b) ==
    IF b = <<>> THEN FALSE
    ELSE IF a = <<>> THEN TRUE
    ELSE IF CodeUnit(a[1]) # CodeUnit(b[1]) THEN CodeUnit(a[1]) < CodeUnit(b[1])
    ELSE StringLess(Tail(a), Tail(b))

----------------------------------------------------------------------------
(* The comparison function handed to Array.prototype.sort                  *)

Sign(direction) == IF direction = "asc" THEN 1 ELSE -1

\* A faulty variant: the values are never cast, and compare as strings.
ValueLess_Lexicographic(valA, valB) == StringLess(valA, valB)

\* valA < valB after the optional cast of both values to numbers
ValueLess(valA, valB) ==
    IF canCastToNumber(valA) /\ canCastToNumber(valB)
    THEN Number(removeCommas(valA)) < Number(removeCommas(valB))
    ELSE StringLess(valA, valB)

\* The arrow function of _sort applied to the values of two rows.
compareValues(valA, valB, sign) ==
    IF ValueLess(valA, valB) THEN sign * (-1)
    ELSE IF ValueLess(valB, valA) THEN sign
    ELSE 0

compare(a, b, columnId, sign) ==
    compareValues(a[columnId].value, b[columnId].value, sign)

\* Whether the comparison function is a consistent comparison function for
\* the values of the column (ECMAScript, Array.prototype.sort): =, < and >
\* under it are transitive and = is symmetric and reflexive.
ConsistentComparator(data, columnId) ==
    LET N == 1..Len(data)
    IN  \A c \in {[x \in N |-> [y \in N |-> compare(data[x], data[y], columnId, 1)]]} :
        \A x \in N : \A y \in N :
          /\ c[x][x] = 0
          /\ (c[x][y] = 0 => c[y][x] = 0)
          /\ \A z \in N :
               /\ (c[x][y] = 0 /\ c[y][z] = 0 => c[x][z] = 0)
               /\ (c[x][y] < 0 /\ c[y][z] < 0 => c[x][z] < 0)
               /\ (c[x][y] > 0 /\ c[y][z] > 0 => c[x][z] > 0)

\* A faulty variant: the row overwrites the row it should go behind.
InsertRow_Overwrites(sorted, row, columnId, sign) ==
    LET before == {i \in 1..Len(sorted) : compare(sorted[i], row, columnId, sign) <= 0}
        k == IF before = {} THEN 0 ELSE CHOOSE i \in before : \A j \in before : j <= i
    IN  SubSeq(sorted, 1, k - 1) \o <<row>> \o SubSeq(sorted, k + 1, Len(sorted))

\* The stable sort of the array under a consistent comparison function:
\* each row goes behind the last row that does not come after it.
InsertRow(sorted, row, columnId, sign) ==
    LET before == {i \in 1..Len(sorted) : compare(sorted[i], row, columnId, sign) <= 0}
        k == IF before = {} THEN 0 ELSE CHOOSE i \in before : \A j \in before : j <= i
    IN  SubSeq(sorted, 1, k) \o <<row>> \o SubSeq(sorted, k + 1, Len(sorted))

RECURSIVE StableSort(_, _, _)
StableSort(data, columnId, sign) ==
    IF data = <<>> THEN <<>>
    ELSE InsertRow(StableSort(SubSeq(data, 1, Len(data) - 1), columnId, sign),
                   data[Len(data)], columnId, sign)

\* Every reordering of the array.
Reorderings(data) ==
    LET n == Len(data)
        P == {p \in [1..n -> 1..n] : \A i \in 1..n : \A j \in 1..n : p[i] = p[j] => i = j}
    IN  {[i \in 1..n |-> data[p[i]]] : p \in P}

\* this.originalData.sort(comparator): the outcomes of the in-place sort.
\*  - the comparator reads a[columnId].value: with two rows or more every row
\*    is compared at least once, so a row without that cell makes it throw a
\*    TypeError, and the array is left as it was (the sorted list is written
\*    back only after the comparisons);
\*  - under a consistent comparator the result is the stable sort;
\*  - otherwise the order is implementation-defined: any permutation.
_sort(data, columnId, direction) ==
    LET sign == Sign(direction) IN
    IF Len(data) < 2
    THEN {[threw |-> "none", data |-> data]}
    ELSE IF \E i \in 1..Len(data) : columnId \notin DOMAIN data[i]
    THEN {[threw |-> "TypeError", data |-> data]}
    ELSE IF ConsistentComparator(data, columnId)
    THEN {[threw |-> "none", data |-> StableSort(data, columnId, sign)]}
    ELSE {[threw |-> "none", data |-> p] : p \in Reorderings(data)}

----------------------------------------------------------------------------
(* Rendering                                                               *)

\* A cell renderer is a caller's function from the value to markup; the
\* model knows one, which wraps the value in <b>..</b>.
ApplyRenderer(cellRenderer, value) == <<"<b>">> \o value \o <<"</b>">>

\* One <td>: innerHTML from the renderer when the cell has one, innerText
\* otherwise.
RenderCell(cell) ==
    IF cell.cellRenderer # "none"
    THEN [kind |-> "innerHTML", content |-> ApplyRenderer(cell.cellRenderer, cell.value)]
    ELSE [kind |-> "innerText", content |-> cell.value]

\* A faulty variant: a row is rendered with the cells it has, a missing cell
\* being left out.
renderData_SkipsMissing(data, ids) ==
    [threw |-> "none",
     tbody |-> [r \in 1..Len(data) |->
                  LET has == {k \in 1..Len(ids) : ids[k] \in DOMAIN data[r]}
                  IN  [k \in 1..Cardinality(has) |->
                          RenderCell(data[r][ids[CHOOSE m \in has :
                              Cardinality({n \in has : n <= m}) = k]])]]]

\* renderData: the <tbody> built for the dataset, one <tr> per row with one
\* <td> per known column id; row[key].value throws a TypeError when a row has
\* no cell for a key, and then nothing is appended to the container.
renderData(data, ids) ==
    IF \E r \in 1..Len(data) : \E k \in 1..Len(ids) : ids[k] \notin DOMAIN data[r]
    THEN [threw |-> "TypeError", tbody |-> <<>>]
    ELSE [threw |-> "none",
          tbody |-> [r \in 1..Len(data) |->
                        [k \in 1..Len(ids) |-> RenderCell(data[r][ids[k]])]]]

\* A faulty variant: every header cell gets the sortable attribute.
renderHeader_AllSortable(hdr) ==
    [j \in 1..Len(hdr) |->
        [id |-> hdr[j].id, innerText |-> hdr[j].label, sortable |-> TRUE,
         dataId |-> hdr[j].id, classList |-> {}, listeners |-> 0]]

\* renderHeader: the <tr> of the new <thead>, one <th> per column.
renderHeader(hdr) ==
    [j \in 1..Len(hdr) |->
        [id |-> hdr[j].id, innerText |-> hdr[j].label, sortable |-> hdr[j].sortable,
         dataId |-> hdr[j].id, classList |-> {}, listeners |-> 0]]

\* Positions <<i, j>> of the header cells of the container, in document order.
ThPositions(ths) ==
    UNION {{<<i, j>> : j \in 1..Len(ths[i])} : i \in 1..Len(ths)}

\* The first position of a non-empty set of positions, in document order.
FirstInDocument(S) ==
    CHOOSE p \in S : \A q \in S : p[1] < q[1] \/ (p[1] = q[1] /\ p[2] <= q[2])

\* document.getElementById(id): the positions of the matching cells (the
\* first one is the element returned; none, and for the empty id, is null).
getElementById(ths, id) ==
    {p \in ThPositions(ths) : id # "" /\ ths[p[1]][p[2]].id = id}

\* tableElement.querySelector(`[data-id="${columnId}"]`)
querySelectorDataId(ths, columnId) ==
    {p \in ThPositions(ths) : ths[p[1]][p[2]].dataId = columnId}

\* The header cells with the cell at position p replaced by th.
WithTh(ths, p, th) == [ths EXCEPT ![p[1]][p[2]] = th]

\* One pass of the loop of setupEventListner, for column k of the header:
\* the listener is a fresh bound function (this.onSort.bind(this)), which
\* removeEventListener cannot find among the installed ones, and which
\* addEventListener therefore always adds.
ListenerAdded(th) ==
    [th EXCEPT !.classList = @ \cup {"sortable", "sort"}, !.listeners = @ + 1]

RECURSIVE setupEventListner(_, _, _)
setupEventListner(hdr, k, ths) ==
    IF k > Len(hdr) THEN ths
    ELSE LET found == getElementById(ths, hdr[k].id)
             p == FirstInDocument(found)
         IN  IF found = {} \/ ~hdr[k].sortable
             THEN setupEventListner(hdr, k + 1, ths)
             ELSE setupEventListner(hdr, k + 1,
                                    WithTh(ths, p, ListenerAdded(ths[p[1]][p[2]])))

\* The class that marks a direction on a header cell: `sort-${direction}`
Marker(direction) == IF direction = "asc" THEN "sort-asc" ELSE "sort-desc"

\* A faulty variant: only the ascending marker is removed.
clearSortDirection_KeepDesc(ths) ==
    [i \in 1..Len(ths) |->
        [j \in 1..Len(ths[i]) |->
            [ths[i][j] EXCEPT !.classList = @ \ {"sort-asc"}]]]

\* clearSortDirection: both markers leave every <th> of the container.
clearSortDirection(ths) ==
    [i \in 1..Len(ths) |->
        [j \in 1..Len(ths[i]) |->
            [ths[i][j] EXCEPT !.classList = @ \ {"sort-desc", "sort-asc"}]]]

\* A faulty variant: the direction comes back as it was.
getInversedSortDirection_NoFlip(direction) ==
    IF direction = "unset" THEN "asc" ELSE direction

\* getInversedSortDirection: a falsy (unset) direction counts as 'desc'.
getInversedSortDirection(direction) ==
    IF direction = "unset" \/ direction = "desc" THEN "asc" ELSE "desc"

\* clearTableRow: querySelector('tbody') is the first <tbody>, the only one
\* removed.
clearTableRow(bodies) == IF bodies = <<>> THEN bodies ELSE Tail(bodies)

\* getHeaderColmun: header.find((column) => column.id = columnId).  The
\* callback assigns; its result is the assigned id, truthy unless empty.  So
\* the first column is returned with its id overwritten (index 1), or, for
\* an empty id or an empty header, every column visited has its id
\* overwritten and nothing is found (index 0).
getHeaderColmun(hdr, columnId) ==
    IF hdr = <<>> THEN [header |-> hdr, index |-> 0]
    ELSE IF columnId # ""
    THEN [header |-> [hdr EXCEPT ![1].id = columnId], index |-> 1]
    ELSE [header |-> [j \in 1..Len(hdr) |-> [hdr[j] EXCEPT !.id = columnId]],
          index |-> 0]

----------------------------------------------------------------------------
(* The operations, on the fields of one SortableTable ("this")             *)

This ==
    [header |-> header, columnIds |-> columnIds, originalData |-> originalData,
     displayData |-> displayData, selectedColumnId |-> selectedColumnId,
     theads |-> theads, tbodies |-> tbodies]

\* A faulty variant: a copy of the backing dataset is sorted, the backing
\* dataset keeps its order.
sort_SortsCopy(this, columnId) ==
    LET found == querySelectorDataId(this.theads, columnId)
        p == FirstInDocument(found)
        got == getHeaderColmun(this.header, columnId)
        \* lines 145-152
        direction ==
            IF this.selectedColumnId = columnId
            THEN getInversedSortDirection(got.header[got.index].sortDirection)
            ELSE "asc"
        hdr == [got.header EXCEPT ![got.index].sortDirection = direction]
        cleared == clearSortDirection(this.theads)
        \* line 154
        marked == WithTh(cleared, p,
                         [cleared[p[1]][p[2]] EXCEPT
                             !.classList = @ \cup {Marker(direction)}])
        \* line 156
        bodies == clearTableRow(this.tbodies)
        upTo156 == [this EXCEPT !.header = hdr, !.selectedColumnId = columnId,
                                !.theads = marked, !.tbodies = bodies]
    IN  IF found = {}
        THEN {[this |-> this, threw |-> "Error"]}
        ELSE IF got.index = 0
        THEN {[this |-> [this EXCEPT !.header = got.header], threw |-> "Error"]}
        ELSE {IF s.threw # "none"
              THEN [this |-> upTo156, threw |-> s.threw]
              ELSE LET r == renderData(s.data, this.columnIds)
                       sorted == [upTo156 EXCEPT !.displayData = s.data]
                   IN  IF r.threw # "none"
                       THEN [this |-> sorted, threw |-> r.threw]
                       ELSE [this |-> [sorted EXCEPT !.tbodies = Append(bodies, r.tbody)],
                             threw |-> "none"]
              : s \in _sort(this.originalData, columnId, direction)}

\* sort(columnId): the outcomes [this, threw] of one call.  A throw keeps
\* what the call had assigned before it.  originalData and displayData are
\* one array from the first setData on (and two empty arrays before), so the
\* in-place sort shows in both.
sort(this, columnId) ==
    LET found == querySelectorDataId(this.theads, columnId)
        p == FirstInDocument(found)
        got == getHeaderColmun(this.header, columnId)
        \* lines 145-152
        direction ==
            IF this.selectedColumnId = columnId
            THEN getInversedSortDirection(got.header[got.index].sortDirection)
            ELSE "asc"
        hdr == [got.header EXCEPT ![got.index].sortDirection = direction]
        cleared == clearSortDirection(this.theads)
        \* line 154
        marked == WithTh(cleared, p,
                         [cleared[p[1]][p[2]] EXCEPT
                             !.classList = @ \cup {Marker(direction)}])
        \* line 156
        bodies == clearTableRow(this.tbodies)
        upTo156 == [this EXCEPT !.header = hdr, !.selectedColumnId = columnId,
                                !.theads = marked, !.tbodies = bodies]
    IN  IF found = {}
        THEN {[this |-> this, threw |-> "Error"]}
        ELSE IF got.index = 0
        THEN {[this |-> [this EXCEPT !.header = got.header], threw |-> "Error"]}
        ELSE {IF s.threw # "none"
              THEN [this |-> upTo156, threw |-> s.threw]
              ELSE LET r == renderData(s.data, this.columnIds)
                       sorted == [upTo156 EXCEPT !.originalData = s.data,
                                                 !.displayData = s.data]
                   IN  IF r.threw # "none"
                       THEN [this |-> sorted, threw |-> r.threw]
                       ELSE [this |-> [sorted EXCEPT !.tbodies = Append(bodies, r.tbody)],
                             threw |-> "none"]
              : s \in _sort(this.originalData, columnId, direction)}

\* onSort: the listener reads the clicked cell's data-id and sorts by it.
onSort(this, th) == sort(this, th.dataId)

\* A click on the header cell at position p dispatches the event to each of
\* its n installed listeners in turn; a listener that throws does not keep
\* the next from running.  The outcomes [this, threw], threw being the
\* sequence of what each listener ended with.
RECURSIVE dispatchClick(_, _, _)
dispatchClick(this, p, n) ==
    IF n = 0 THEN {[this |-> this, threw |-> <<>>]}
    ELSE UNION {{[this |-> o.this, threw |-> Append(prev.threw, o.threw)]
                 : o \in onSort(prev.this, prev.this.theads[p[1]][p[2]])}
                : prev \in dispatchClick(this, p, n - 1)}

\* getTableData()
getTableData == displayData

----------------------------------------------------------------------------
(* The callers' inputs                                                     *)

\* null / undefined, and an array argument
Absent == [absent |-> TRUE, value |-> <<>>]
Given(array) == [absent |-> FALSE, value |-> array]

Column(id, label, sortable, sortDirection) ==
    [id |-> id, label |-> label, sortable |-> sortable, sortDirection |-> sortDirection]

Cell(value) == [value |-> value, cellRenderer |-> "none"]
BoldCell(value) == [value |-> value, cellRenderer |-> "bold"]

ColumnIdUniverse == {"name", "age"}

\* The scenario's header: two sortable columns, no direction given.
ScenarioHeader ==
    <<Column("name", "Name", TRUE, "unset"), Column("age", "Age", TRUE, "unset")>>

\* Header schemas: the scenario's, a schema in the other order with
\* directions given and one column not sortable, and the empty array.
Headers ==
    { ScenarioHeader,
      <<Column("age", "Age", TRUE, "desc"), Column("name", "Name", FALSE, "asc")>>,
      <<>> }

\* The scenario's two rows.
ScenarioData ==
    << [name |-> Cell(<<"B","o","b">>), age |-> Cell(<<"3","0">>)],
       [name |-> Cell(<<"A","n","n">>), age |-> Cell(<<"5">>)] >>

\* A dataset with a row that has no age cell.
PartialData ==
    << [name |-> Cell(<<"B","o","b">>)],
       [name |-> Cell(<<"A","n","n">>), age |-> Cell(<<"5">>)] >>

\* A dataset in which one row occurs twice.
TwinData ==
    << [name |-> Cell(<<"A","n","n">>), age |-> Cell(<<"5">>)],
       [name |-> Cell(<<"B","o","b">>), age |-> Cell(<<"3","0">>)],
       [name |-> Cell(<<"A","n","n">>), age |-> Cell(<<"5">>)] >>

\* Datasets of the state machine.
Datasets == {ScenarioData, PartialData, <<>>}

\* Cell values that exercise the comparison policy: numeric strings, with a
\* comma, with a leading zero (02 and 2 are equal as numbers) and of commas
\* only (Number('') is 0), and strings that are not numeric; 10 < 1a < 2 as
\* strings while 2 < 10 as numbers.
ValuePool ==
    { <<"1","0">>, <<"2">>, <<"1",",","0","0","0">>, <<"0","2">>, <<",">>,
      <<"a","b","c">>, <<"1","a">> }

\* The age cell that tells the rows of a generated dataset apart: the row's
\* place in the dataset as supplied.
PlaceTag(i) == <<<<"1">>, <<"2">>, <<"3">>, <<"5">>>>[i]

\* Datasets of the sort specification: every choice of up to MaxRows name
\* values from the pool.
SortDatasets ==
    UNION {{[i \in 1..n |-> [name |-> Cell(names[i]), age |-> Cell(PlaceTag(i))]]
            : names \in [1..n -> ValuePool]}
           : n \in 0..MaxRows}

----------------------------------------------------------------------------
(* The state machine                                                       *)

\* lastOp records the operation that led to the state: its name, its
\* argument (absent, or the array given; the column id for a sort) and what
\* each call made ended with ("none", or the error thrown).
NoOp == [op |-> "new", absent |-> FALSE, value |-> <<>>, columnId |-> "", threw |-> <<>>]

\* constructor
Init ==
    /\ header = <<>>
    /\ columnIds = <<>>
    /\ originalData = <<>>
    /\ displayData = <<>>
    /\ selectedColumnId = ""
    /\ theads = <<>>
    /\ tbodies = <<>>
    /\ lastOp = NoOp

\* setHeader(header)
setHeader(arg) ==
    /\ lastOp' = [op |-> "setHeader", absent |-> arg.absent, value |-> arg.value,
                  columnId |-> "", threw |-> <<"none">>]
    /\ IF arg.absent
       THEN UNCHANGED <<header, columnIds, theads>>
       ELSE /\ Len(theads) < MaxTheads
            /\ header' = arg.value
            /\ columnIds' = columnIds \o [j \in 1..Len(arg.value) |-> arg.value[j].id]
            /\ theads' = setupEventListner(arg.value, 1,
                                           Append(theads, renderHeader(arg.value)))
    /\ UNCHANGED <<originalData, displayData, selectedColumnId, tbodies>>

\* A faulty variant: an absent argument is taken for an empty dataset.
setData_AbsentClears(arg) ==
    LET data == arg.value
        r == renderData(data, columnIds) IN
    /\ lastOp' = [op |-> "setData", absent |-> arg.absent, value |-> arg.value,
                  columnId |-> "", threw |-> <<r.threw>>]
    /\ Len(tbodies) < MaxTbodies
    /\ originalData' = data
    /\ displayData' = data
    /\ tbodies' = IF r.threw # "none" THEN tbodies ELSE Append(tbodies, r.tbody)
    /\ UNCHANGED <<header, columnIds, selectedColumnId, theads>>

\* A faulty variant: the dataset is stored as the backing dataset only.
setData_BackingOnly(arg) ==
    LET r == renderData(arg.value, columnIds) IN
    /\ lastOp' = [op |-> "setData", absent |-> arg.absent, value |-> arg.value,
                  columnId |-> "", threw |-> <<IF arg.absent THEN "none" ELSE r.threw>>]
    /\ IF arg.absent
       THEN UNCHANGED <<originalData, tbodies>>
       ELSE /\ Len(tbodies) < MaxTbodies
            /\ originalData' = arg.value
            /\ tbodies' = IF r.threw # "none" THEN tbodies ELSE Append(tbodies, r.tbody)
    /\ UNCHANGED <<header, columnIds, selectedColumnId, theads, displayData>>

\* A faulty variant: setting a dataset resets the selected column.
setData_ResetsSelection(arg) ==
    LET r == renderData(arg.value, columnIds) IN
    /\ lastOp' = [op |-> "setData", absent |-> arg.absent, value |-> arg.value,
                  columnId |-> "", threw |-> <<IF arg.absent THEN "none" ELSE r.threw>>]
    /\ IF arg.absent
       THEN UNCHANGED <<originalData, displayData, tbodies, selectedColumnId>>
       ELSE /\ Len(tbodies) < MaxTbodies
            /\ originalData' = arg.value
            /\ displayData' = arg.value
            /\ selectedColumnId' = ""
            /\ tbodies' = IF r.threw # "none" THEN tbodies ELSE Append(tbodies, r.tbody)
    /\ UNCHANGED <<header, columnIds, theads>>

\* setData(data)
setData(arg) ==
    LET r == renderData(arg.value, columnIds) IN
    /\ lastOp' = [op |-> "setData", absent |-> arg.absent, value |-> arg.value,
                  columnId |-> "", threw |-> <<IF arg.absent THEN "none" ELSE r.threw>>]
    /\ IF arg.absent
       THEN UNCHANGED <<originalData, displayData, tbodies>>
       ELSE /\ Len(tbodies) < MaxTbodies
            /\ originalData' = arg.value
            /\ displayData' = arg.value
            /\ tbodies' = IF r.threw # "none" THEN tbodies ELSE Append(tbodies, r.tbody)
    /\ UNCHANGED <<header, columnIds, selectedColumnId, theads>>

\* The fields of the instance become those of an outcome.
Becomes(this) ==
    /\ header' = this.header
    /\ columnIds' = this.columnIds
    /\ originalData' = this.originalData
    /\ displayData' = this.displayData
    /\ selectedColumnId' = this.selectedColumnId
    /\ theads' = this.theads
    /\ tbodies' = this.tbodies

\* A direct call of sort(columnId), which the listeners wrap.
sortCall(columnId) ==
    \E o \in sort(This, columnId) :
        /\ Becomes(o.this)
        /\ lastOp' = [op |-> "sort", absent |-> FALSE, value |-> <<>>,
                      columnId |-> columnId, threw |-> <<o.threw>>]

\* The user clicks the header cell at position p, which has a listener.
click(p) ==
    /\ theads[p[1]][p[2]].listeners > 0
    /\ \E o \in dispatchClick(This, p, theads[p[1]][p[2]].listeners) :
        /\ Becomes(o.this)
        /\ lastOp' = [op |-> "click", absent |-> FALSE, value |-> <<>>,
                      columnId |-> theads[p[1]][p[2]].dataId, threw |-> o.threw]

NextOver(H, D) ==
    \/ \E arg \in {Absent} \cup {Given(h) : h \in H} : setHeader(arg)
    \/ \E arg \in {Absent} \cup {Given(d) : d \in D} : setData(arg)
    \/ \E columnId \in ColumnIdUniverse : sortCall(columnId)
    \/ \E p \in ThPositions(theads) : click(p)

\* Every operation, on the header schemas and the datasets above.
Next == NextOver(Headers, Datasets)

Spec == Init /\ [][Next]_vars

\* The sort computation, driven as in the scenario: the header is set once,
\* a dataset that exercises the comparison policy, or the one with a row
\* occurring twice, is set, and the user clicks header cells.
SortNext ==
    \/ theads = <<>> /\ setHeader(Given(ScenarioHeader))
    \/ tbodies = <<>> /\ \E d \in SortDatasets \cup {TwinData} : setData(Given(d))
    \/ \E p \in ThPositions(theads) : click(p)

SortSpec == Init /\ [][SortNext]_vars

----------------------------------------------------------------------------
(* Vocabulary of the properties                                            *)

\* The sortDirection stored for column id c: that of the first column of
\* the header whose id is c.
StoredDirection(hdr, c) ==
    LET m == {j \in 1..Len(hdr) : hdr[j].id = c}
    IN  IF m = {} THEN "none"
        ELSE hdr[CHOOSE j \in m : \A k \in m : j <= k].sortDirection

\* Ascending <-> descending, an unset direction becoming ascending.
Flipped(direction) ==
    CASE direction = "asc" -> "desc"
      [] direction = "desc" -> "asc"
      [] direction = "unset" -> "asc"

\* The header cells that carry a sort marker, and those that carry the
\* marker of a direction.
MarkedCells(ths) ==
    {p \in ThPositions(ths) : ths[p[1]][p[2]].classList \cap {"sort-asc", "sort-desc"} # {}}

MarkedWith(ths, direction) ==
    {p \in ThPositions(ths) :
        ths[p[1]][p[2]].classList \cap {"sort-asc", "sort-desc"} = {Marker(direction)}}

\* The rows are in non-decreasing order under the comparison of column c
\* in the direction.
IsOrdered(data, c, direction) ==
    \A i \in 1..Len(data) : \A j \in 1..Len(data) :
        i < j => compare(data[i], data[j], c, Sign(direction)) <= 0

\* The values of column c, row by row.
ColumnValues(data, c) == [i \in 1..Len(data) |-> data[i][c].value]

Reverse(seq) == [i \in 1..Len(seq) |-> seq[Len(seq) + 1 - i]]

\* The last operation was one sort by column c, it returned normally and
\* the direction it applied shows on c's header cell.
SortedBy(c, direction) ==
    /\ lastOp.op \in {"click", "sort"}
    /\ lastOp.columnId = c
    /\ lastOp.threw = <<"none">>
    /\ \E p \in MarkedWith(theads, direction) : theads[p[1]][p[2]].dataId = c

\* Only ASCII digits and commas, and not empty.
DigitsAndCommas(str) ==
    /\ str # <<>>
    /\ \A i \in 1..Len(str) : str[i] \in {",", "0", "1", "2", "3", "4", "5", "6", "7", "8", "9"}

\* The number a string of digits and commas stands for, commas dropped.
RECURSIVE NumericValue(_)
NumericValue(str) ==
    IF str = <<>> THEN 0
    ELSE LET front == SubSeq(str, 1, Len(str) - 1)
             last == str[Len(str)]
         IN  IF last = "," THEN NumericValue(front)
             ELSE 10 * NumericValue(front) + (CodeUnit(last) - 48)

\* The pairwise policy of the comparison: as numbers when both values are
\* digits and commas, as strings otherwise.
PairwiseLess(a, b) ==
    IF DigitsAndCommas(a) /\ DigitsAndCommas(b)
    THEN NumericValue(a) < NumericValue(b)
    ELSE StringLess(a, b)

----------------------------------------------------------------------------
(* Properties                                                              *)

\* C1: with the header set once, a click on a sortable header cell selects
\* its column; when that column was the selected one already, the direction
\* stored for it is flipped (asc to desc, desc to asc, unset to asc), and
\* otherwise the direction is ascending; the direction is stored, shown as
\* the only marker, and the rows come out ordered by it.
C1_ClickDirection ==
    [][ (lastOp'.op = "click" /\ Len(theads) = 1) =>
          LET c == lastOp'.columnId
              d == IF selectedColumnId = c
                   THEN Flipped(StoredDirection(header, c))
                   ELSE "asc"
          IN  /\ selectedColumnId' = c
              /\ StoredDirection(header', c) = d
              /\ MarkedCells(theads') = MarkedWith(theads', d)
              /\ \E p \in MarkedCells(theads') : theads'[p[1]][p[2]].dataId = c
              /\ (lastOp'.threw = <<"none">> => IsOrdered(displayData', c, d))
      ]_vars

\* C1 witness: the scenario's second click on "age": descending, Bob(30)
\* before Ann(5).
C1_Witness ==
    /\ lastOp.op = "click" /\ lastOp.columnId = "age" /\ lastOp.threw = <<"none">>
    /\ Len(theads) = 1
    /\ selectedColumnId = "age"
    /\ StoredDirection(header, "age") = "desc"
    /\ ColumnValues(displayData, "age") = << <<"3","0">>, <<"5">> >>

\* C2 (as claimed): when the values of column c are pairwise unequal under
\* the comparison, and the rows were just sorted by c ascending, a second
\* click on c leaves the rows in exactly the reverse order.
C2_ToggleLaw ==
    [][ ( /\ SortedBy(lastOp.columnId, "asc")
          /\ lastOp'.op = "click"
          /\ lastOp'.columnId = lastOp.columnId
          /\ lastOp'.threw = <<"none">>
          /\ \A i \in 1..Len(displayData) : \A j \in 1..Len(displayData) :
                i # j => compare(displayData[i], displayData[j], lastOp.columnId, 1) # 0 )
        => displayData' = Reverse(displayData)
      ]_vars

\* C3: after an ascending sort by a column whose values are all digits and
\* commas, the rows are in non-decreasing order of the numbers the values
\* stand for.
C3_NumericPolicy ==
    \A c \in ColumnIdUniverse :
        ( /\ SortedBy(c, "asc")
          /\ \A i \in 1..Len(displayData) : DigitsAndCommas(displayData[i][c].value) )
        => \A i \in 1..Len(displayData) : \A j \in 1..Len(displayData) :
              i < j => NumericValue(displayData[i][c].value)
                          <= NumericValue(displayData[j][c].value)

\* C3 witness: the values 10, 2, 1,000 (supplied in that order, as the place
\* tags tell) have come out as 2, 10, 1,000.
C3_Witness ==
    /\ SortedBy("name", "asc")
    /\ ColumnValues(displayData, "name")
          = << <<"2">>, <<"1","0">>, <<"1",",","0","0","0">> >>
    /\ ColumnValues(displayData, "age") = << <<"2">>, <<"1">>, <<"3">> >>

\* C4 (as claimed): after an ascending sort by a column whose values are
\* not all digits and commas, the rows are in non-decreasing order of the
\* values as strings.
C4_LexicographicFallback ==
    \A c \in ColumnIdUniverse :
        ( /\ SortedBy(c, "asc")
          /\ \E i \in 1..Len(displayData) : ~DigitsAndCommas(displayData[i][c].value) )
        => \A i \in 1..Len(displayData) : \A j \in 1..Len(displayData) :
              i < j => ~StringLess(displayData[j][c].value, displayData[i][c].value)

\* C4 (amended): after an ascending sort by a column whose values are not
\* all digits and commas, and which the pairwise comparison orders
\* consistently, no row comes before a row that is smaller under the
\* pairwise policy (numbers for two numeric values, strings otherwise).
C4_PairwisePolicy ==
    \A c \in ColumnIdUniverse :
        ( /\ SortedBy(c, "asc")
          /\ \E i \in 1..Len(displayData) : ~DigitsAndCommas(displayData[i][c].value)
          /\ ConsistentComparator(displayData, c) )
        => \A i \in 1..Len(displayData) : \A j \in 1..Len(displayData) :
              i < j => ~PairwiseLess(displayData[j][c].value, displayData[i][c].value)

\* C4 witness: the values 10, abc, 2 (supplied in that order) have come out
\* as 2, 10, abc.
C4_Witness ==
    /\ SortedBy("name", "asc")
    /\ ColumnValues(displayData, "name") = << <<"2">>, <<"1","0">>, <<"a","b","c">> >>
    /\ ColumnValues(displayData, "age") = << <<"3">>, <<"1">>, <<"2">> >>

\* C5: at most one header cell carries a sort marker and none carries both;
\* after a sort that got past its lookups, the marked cell is a cell of the
\* column just sorted.
C5_OneMarker ==
    /\ Cardinality(MarkedCells(theads)) <= 1
    /\ \A p \in ThPositions(theads) :
          ~({"sort-asc", "sort-desc"} \subseteq theads[p[1]][p[2]].classList)
    /\ ( /\ lastOp.op \in {"click", "sort"}
         /\ lastOp.threw[Len(lastOp.threw)] # "Error" )
       => /\ MarkedCells(theads) # {}
          /\ \A p \in MarkedCells(theads) : theads[p[1]][p[2]].dataId = lastOp.columnId

\* C5 witness: two header sections are in the container, the last click
\* sorted by "name" descending, and the one marker is on a "name" cell.
C5_Witness ==
    /\ Len(theads) = 2
    /\ lastOp.op = "click" /\ lastOp.columnId = "name"
    /\ \E p \in MarkedWith(theads, "desc") : theads[p[1]][p[2]].dataId = "name"
    /\ \E p \in ThPositions(theads) : theads[p[1]][p[2]].dataId = "age"

\* Whether the column id has a header cell in the container and is the id
\* of a column of the current header.
KnownColumn(c) ==
    /\ \E p \in ThPositions(theads) : theads[p[1]][p[2]].dataId = c
    /\ \E j \in 1..Len(header) : header[j].id = c

\* C6 (as claimed): a sort by a column id that has no header cell, or that
\* no column of the current header has, throws the explicit error every
\* time it is run and leaves the dataset as it was.
C6_UnknownColumnFails ==
    [][ (lastOp'.op \in {"click", "sort"} /\ ~KnownColumn(lastOp'.columnId)) =>
          /\ \A k \in 1..Len(lastOp'.threw) : lastOp'.threw[k] = "Error"
          /\ originalData' = originalData
          /\ displayData' = displayData
      ]_vars

\* C7 (as claimed): no header cell has more than one sort listener, and a
\* click runs one sort.
C7_OneListener ==
    /\ \A p \in ThPositions(theads) : theads[p[1]][p[2]].listeners <= 1
    /\ lastOp.op = "click" => Len(lastOp.threw) = 1

\* The fields of the instance and the rendered sections stay as they are.
NothingChanges ==
    UNCHANGED <<header, columnIds, originalData, displayData, selectedColumnId,
                theads, tbodies>>

\* C8 (as claimed): setHeader and setData with an absent or an empty
\* argument change nothing and throw nothing.
C8_AbsentOrEmptyNoOp ==
    [][ ( /\ lastOp'.op \in {"setHeader", "setData"}
          /\ (lastOp'.absent \/ lastOp'.value = <<>>) )
        => (NothingChanges /\ lastOp'.threw = <<"none">>)
      ]_vars

\* C8 (amended): setHeader and setData with an absent argument change
\* nothing and throw nothing.
C8_AbsentNoOp ==
    [][ (lastOp'.op \in {"setHeader", "setData"} /\ lastOp'.absent)
        => (NothingChanges /\ lastOp'.threw = <<"none">>)
      ]_vars

\* C8 witness: setData was called with no argument on a table that has a
\* header, a dataset, a selection and rendered sections.
C8_Witness ==
    /\ lastOp.op = "setData" /\ lastOp.absent
    /\ header # <<>> /\ displayData # <<>> /\ selectedColumnId # ""
    /\ theads # <<>> /\ tbodies # <<>>

\* C9 (as claimed): the column id list is the sequence of the ids of the
\* header's columns.
C9_ColumnIdsMatchHeader ==
    columnIds = [j \in 1..Len(header) |-> header[j].id]

\* C10: right after setData(D), getTableData() is D.
C10_SetDataThenGet ==
    (lastOp.op = "setData" /\ ~lastOp.absent) => getTableData = lastOp.value

\* C10 witness: setData of the scenario's rows after a sort had reversed
\* another copy of them, which is still rendered.
C10_Witness ==
    /\ lastOp.op = "setData" /\ ~lastOp.absent
    /\ getTableData = ScenarioData
    /\ selectedColumnId = "age"
    /\ Len(tbodies) = 2
    /\ tbodies[1] # tbodies[2]

\* C11 (as claimed): the sort computation is idempotent: when the rows were
\* just sorted by column c in direction d, sorting them by c in d once more
\* leaves their order as it is, in both directions and with tied values.
C11_Idempotent ==
    \A c \in ColumnIdUniverse : \A d \in {"asc", "desc"} :
        SortedBy(c, d) =>
            \A s \in _sort(displayData, c, d) :
                s.threw = "none" /\ s.data = displayData

\* C12: right after setHeader(H), the header row it rendered (the last one
\* of the container) has one cell per column of H, in H's order; each cell
\* has the column's id as its element id and as its data-id, and has the
\* sortable attribute exactly when the column is sortable.
C12_HeaderCells ==
    (lastOp.op = "setHeader" /\ ~lastOp.absent) =>
        /\ theads # <<>>
        /\ LET H == lastOp.value
               row == theads[Len(theads)]
           IN  /\ Len(row) = Len(H)
               /\ \A j \in 1..Len(H) :
                    /\ row[j].id = H[j].id
                    /\ row[j].dataId = H[j].id
                    /\ row[j].sortable = H[j].sortable

\* C12 witness: a second setHeader, of a header whose age column is sortable
\* and whose name column is not, has rendered its row behind the first one.
C12_Witness ==
    /\ lastOp.op = "setHeader" /\ ~lastOp.absent
    /\ Len(theads) = 2
    /\ Len(theads[1]) = 2
    /\ Len(theads[2]) = 2
    /\ theads[2][1].id = "age" /\ theads[2][1].sortable
    /\ theads[2][2].id = "name" /\ ~theads[2][2].sortable

\* C13 (as claimed): a sort by column id c changes no column's id, and
\* changes the stored sortDirection of no column whose id is not c.
C13_OnlyTheSortedColumn ==
    [][ lastOp'.op = "sort" =>
          /\ Len(header') = Len(header)
          /\ \A j \in 1..Len(header) :
               /\ header'[j].id = header[j].id
               /\ (header[j].id # lastOp'.columnId
                     => header'[j].sortDirection = header[j].sortDirection)
      ]_vars

\* C14 (as claimed): after a sort that returned, the container holds exactly
\* one rendered body, and that body is the rendering of the rows of
\* getTableData() in their order.
C14_OneBodyAfterSort ==
    (lastOp.op = "sort" /\ lastOp.threw = <<"none">>) =>
        /\ Len(tbodies) = 1
        /\ tbodies[1] = renderData(getTableData, columnIds).tbody

\* C15: the backing dataset and the display dataset are the same sequence in
\* every state, so getTableData() is the backing dataset; a sort that
\* returned left its order in both, the order supplied to setData being kept
\* in neither.  (originalData is the array the caller passed: setData stores
\* the reference and the sort is in place.)
C15_OneDataset ==
    /\ originalData = displayData
    /\ getTableData = originalData
    /\ \A c \in ColumnIdUniverse : \A d \in {"asc", "desc"} :
         (SortedBy(c, d) /\ ConsistentComparator(originalData, c))
            => originalData = StableSort(originalData, c, Sign(d))

\* C15 witness: the scenario's rows, supplied as Bob(30), Ann(5), after a
\* sort by age ascending: both datasets hold Ann, Bob.
C15_Witness ==
    /\ SortedBy("age", "asc")
    /\ originalData = Reverse(ScenarioData)
    /\ displayData = Reverse(ScenarioData)

\* C16: a setData call leaves the sort selection as it is: the selected
\* column id, every column's stored sortDirection and the header cells with
\* their markers are unchanged, and with a dataset given the rows are kept in
\* the order supplied.  So, with the header set once, a click that follows a
\* setData and hits the selected column flips the direction stored for it
\* instead of starting at ascending.
C16_SetDataKeepsSelection ==
    [][ /\ lastOp'.op = "setData" =>
              /\ selectedColumnId' = selectedColumnId
              /\ header' = header
              /\ theads' = theads
              /\ (~lastOp'.absent => getTableData' = lastOp'.value)
        /\ ( /\ lastOp.op = "setData"
             /\ lastOp'.op = "click"
             /\ Len(theads) = 1
             /\ lastOp'.columnId = selectedColumnId )
           => LET c == selectedColumnId
                  d == Flipped(StoredDirection(header, c))
              IN  /\ selectedColumnId' = c
                  /\ StoredDirection(header', c) = d
                  /\ \E p \in MarkedWith(theads', d) : theads'[p[1]][p[2]].dataId = c
      ]_vars

\* C16 witness: after a sort by age ascending (Ann, Bob), setData supplied
\* the scenario's rows again: they are kept as supplied (Bob, Ann), while
\* age is still the selected column, ascending, and marked so.
C16_Witness ==
    /\ lastOp.op = "setData" /\ ~lastOp.absent
    /\ lastOp.value = ScenarioData
    /\ getTableData = ScenarioData
    /\ selectedColumnId = "age"
    /\ StoredDirection(header, "age") = "asc"
    /\ \E p \in MarkedWith(theads, "asc") : theads[p[1]][p[2]].dataId = "age"

\* Some row of the dataset has no cell for one of the ids.
MissingCell(data, ids) ==
    \E r \in 1..Len(data) : \E k \in 1..Len(ids) : ids[k] \notin DOMAIN data[r]

\* C17: the known column ids being those registered by every setHeader so
\* far (columnIds), a setData of a dataset in which some row has no cell for
\* a known id throws and appends no body; a sort of such a dataset, direct or
\* by a click, never returns normally and adds no body to those that were
\* there; and a body that is appended has, in every row, one cell per known
\* id, none of them a default.
C17_MissingCellThrows ==
    [][ /\ (lastOp'.op = "setData" /\ ~lastOp'.absent /\ MissingCell(lastOp'.value, columnIds))
              => (lastOp'.threw = <<"TypeError">> /\ tbodies' = tbodies)
        /\ (lastOp'.op \in {"sort", "click"} /\ MissingCell(originalData, columnIds))
              => /\ \A i \in 1..Len(lastOp'.threw) : lastOp'.threw[i] \in {"TypeError", "Error"}
                 /\ \E k \in 0..Len(tbodies) :
                        tbodies' = SubSeq(tbodies, k + 1, Len(tbodies))
        /\ ( /\ lastOp'.op \in {"setData", "sort", "click"} /\ ~lastOp'.absent
             /\ lastOp'.threw[Len(lastOp'.threw)] = "none" )
              => /\ tbodies' # <<>>
                 /\ ~MissingCell(getTableData', columnIds)
                 /\ LET body == tbodies'[Len(tbodies')]
                    IN  /\ Len(body) = Len(getTableData')
                        /\ \A r \in 1..Len(body) :
                             /\ Len(body[r]) = Len(columnIds)
                             /\ \A k \in 1..Len(columnIds) :
                                  body[r][k] = RenderCell(getTableData'[r][columnIds[k]])
      ]_vars

\* C17 witness: the header was set twice, and a dataset whose first row has
\* no age cell was sorted by name: the sort itself returned (Ann before Bob)
\* and its re-render threw.
C17_Witness ==
    /\ lastOp.op = "sort" /\ lastOp.columnId = "name"
    /\ lastOp.threw = <<"TypeError">>
    /\ getTableData = Reverse(PartialData)
    /\ Len(columnIds) > Len(header)

\* How many times the row occurs in the dataset, and whether two datasets
\* hold the same rows, each as many times.
Occurrences(data, row) == Cardinality({i \in 1..Len(data) : data[i] = row})

SameRows(a, b) ==
    /\ Len(a) = Len(b)
    /\ \A i \in 1..Len(a) : Occurrences(a, a[i]) = Occurrences(b, a[i])

\* C18: setData makes getTableData() the rows supplied, and every sort after
\* it leaves in getTableData() the same rows, each as many times as before:
\* sorting only permutes.
C18_SortPermutes ==
    [][ /\ (lastOp'.op = "setData" /\ ~lastOp'.absent)
              => SameRows(getTableData', lastOp'.value)
        /\ (lastOp'.op \in {"sort", "click"})
              => SameRows(getTableData', getTableData)
      ]_vars

\* C18 witness: rows supplied as Ann(5), Bob(30), Ann(5), after a sort by
\* age ascending: Ann(5) is there twice and Bob(30) once.
C18_Witness ==
    /\ SortedBy("age", "asc")
    /\ getTableData = <<TwinData[1], TwinData[3], TwinData[2]>>
    /\ Occurrences(getTableData, TwinData[1]) = 2
    /\ Occurrences(getTableData, TwinData[2]) = 1

\* C19 (as claimed): over the values of a column that was just sorted, the
\* comparison of _sort is a consistent ordering: compare(a, b) is the
\* negation of compare(b, a), and a before b with b before c makes a
\* before c.
C19_ConsistentOrdering ==
    \A c \in ColumnIdUniverse : \A d \in {"asc", "desc"} :
        SortedBy(c, d) =>
            LET N == 1..Len(getTableData)
                cmp(i, j) == compare(getTableData[i], getTableData[j], c, Sign(d))
            IN  \A i \in N : \A j \in N :
                  /\ cmp(i, j) = 0 - cmp(j, i)
                  /\ \A k \in N : (cmp(i, j) < 0 /\ cmp(j, k) < 0) => cmp(i, k) < 0

====
